---- MODULE Spec2Model ----
(***************************************************************************)
(* Model of the NanoEdit image-editing client: the App component's state   *)
(* (src/App.tsx lines 16-82), the buttons that drive it, the FileReader    *)
(* reads and the editImageWithGemini calls that complete asynchronously    *)
(* (src/App.tsx lines 294-367).                                            *)
(*                                                                         *)
(* Strings the code inspects are sequences of one-character strings; the   *)
(* fixed messages the code only stores are one-element sequences.  A       *)
(* nullable value is None (null) or Some(v).                               *)
(***************************************************************************)
EXTENDS Integers, Sequences, FiniteSets, Bags, TLC

\* ------------------------------------------------------------------ bounds
MaxCalls == 2
MaxReaders == 2
MaxParts == 2

\* ------------------------------------------------------- nullable values
None == <<>>
Some(v) == <<v>>
\* JavaScript truthiness of a `string | null`: null and "" are falsy.
Truthy(o) == o # None /\ o[1] # <<>>

\* ---------------------------------------------------------------- strings
S_dataColon == <<"d", "a", "t", "a", ":">>
S_imageSlash == <<"i", "m", "a", "g", "e", "/">>
S_base64Comma == <<";", "b", "a", "s", "e", "6", "4", ",">>
T_png == S_imageSlash \o <<"p", "n", "g">>
T_svg == S_imageSlash \o <<"s", "v", "g", "+", "x", "m", "l">>
T_jpeg == S_imageSlash \o <<"j", "p", "e", "g">>
T_txt == <<"t", "e", "x", "t", "/", "p", "l", "a", "i", "n">>

WhiteSpace == {" "}

RECURSIVE SeqsUpTo(_, _)
SeqsUpTo(S, n) ==
  IF n = 0 THEN {<<>>}
  ELSE LET shorter == SeqsUpTo(S, n - 1)
       IN shorter \cup {Append(s, c) : s \in {t \in shorter : Len(t) = n - 1}, c \in S}

\* The texts typed into the textarea: empty, blank, plain, and padded with
\* white space on both sides.
Prompts == {<<>>, <<" ", " ">>, <<"a">>, <<" ", "a", " ">>}

\* String.prototype.startsWith
StartsWith(s, p) == Len(s) >= Len(p) /\ SubSeq(s, 1, Len(p)) = p

RECURSIVE TrimStart(_)
TrimStart(s) ==
  IF s # <<>> /\ Head(s) \in WhiteSpace THEN TrimStart(Tail(s)) ELSE s

RECURSIVE TrimEnd(_)
TrimEnd(s) ==
  IF s # <<>> /\ s[Len(s)] \in WhiteSpace THEN TrimEnd(SubSeq(s, 1, Len(s) - 1)) ELSE s

\* String.prototype.trim
Trim(s) == TrimEnd(TrimStart(s))

\* ------------------------------------------------------------------ files
\* A chosen file: its declared media type and its content in base64.
Files ==
  { [type |-> T_png, data |-> <<"A">>],
    [type |-> T_svg, data |-> <<"B">>],
    [type |-> T_txt, data |-> <<"T">>] }

\* FileReader.readAsDataURL: the content as a data URL.
readAsDataURL(file) == S_dataColon \o file.type \o S_base64Comma \o file.data

\* ------------------------------------------------------------- App state
AppStatus == {"IDLE", "LOADING", "SUCCESS", "ERROR"}

VARIABLES status, originalImage, generatedImage, prompt, error, mimeType,
          readers, calls, last

vars == <<status, originalImage, generatedImage, prompt, error, mimeType,
          readers, calls, last>>

Init ==
  /\ status = "IDLE"
  /\ originalImage = None
  /\ generatedImage = None
  /\ prompt = <<>>
  /\ error = None
  /\ mimeType = T_jpeg
  /\ readers = {}
  /\ calls = EmptyBag
  /\ last = "init"

\* ------------------------------------------------------- handleFileUpload
M_invalidFile == <<"Please upload a valid image file.">>

\* The file input is rendered in the hero section only, which is shown
\* while originalImage is falsy.
UploadRendered == ~Truthy(originalImage)

handleFileUpload(file) ==
  /\ UploadRendered
  /\ IF ~StartsWith(file.type, S_imageSlash)
     THEN /\ error' = Some(M_invalidFile)
          /\ last' = "handleFileUpload"
          /\ UNCHANGED <<status, originalImage, generatedImage, prompt, mimeType,
                         readers, calls>>
     ELSE /\ Cardinality(readers \cup {file}) <= MaxReaders
          /\ originalImage' = None
          /\ generatedImage' = None
          /\ error' = None
          /\ mimeType' = file.type
          /\ status' = "IDLE"
          /\ readers' = readers \cup {file}
          /\ last' = "handleFileUpload"
          /\ UNCHANGED <<prompt, calls>>

\* reader.onloadend: fires when the read has finished, with the data URL as
\* result, or with a null result when the read failed.
onloadend(file, ok) ==
  /\ file \in readers
  /\ readers' = readers \ {file}
  /\ originalImage' = IF ok THEN Some(readAsDataURL(file)) ELSE None
  /\ last' = "onloadend"
  /\ UNCHANGED <<status, generatedImage, prompt, error, mimeType, calls>>

\* ----------------------------------------------------------------- prompt
\* The textarea is rendered with the workspace (originalImage truthy) and is
\* disabled while status is LOADING.
PromptEditable == Truthy(originalImage) /\ status # "LOADING"

setPrompt(p) ==
  /\ PromptEditable
  /\ prompt' = p
  /\ last' = "setPrompt"
  /\ UNCHANGED <<status, originalImage, generatedImage, error, mimeType, readers, calls>>

\* ---------------------------------------------------------------- gateway
M_noApiKey == <<"API_KEY environment variable is not set">>
M_noContent == <<"No content returned from Gemini">>
M_textInstead == <<"Model returned text instead of image: ">>
M_noImage == <<"Model did not return a valid image.">>
M_serviceFallback == <<"Failed to process image with Gemini">>
M_generateFallback == <<"Something went wrong during generation.">>
M_network == <<"fetch failed">>

Return(v) == [kind |-> "return", value |-> v]
Throw(m) == [kind |-> "throw", value |-> m]

\* One element of the response's content sequence.
ImagePart(d) == [inlineData |-> Some(d), text |-> None]
TextPart(t) == [inlineData |-> None, text |-> Some(t)]
BlankPart == [inlineData |-> Some(<<>>), text |-> Some(<<>>)]
PartKinds ==
  {ImagePart(<<"X">>), ImagePart(<<"Y">>), TextPart(<<"n", "o">>), TextPart(<<"h", "i">>),
   BlankPart}

\* What the outside world does with one call: whether the credential is
\* configured, whether generateContent throws (with a message, possibly
\* empty) and, if it answers, the parts of the first candidate (None when
\* candidates, content or parts is missing).
\* Without a credential no request is made; a request that throws has no
\* response.
GatewayEnvs ==
  {[apiKey |-> FALSE, fault |-> None, parts |-> None]}
  \cup {[apiKey |-> TRUE, fault |-> Some(m), parts |-> None] : m \in {M_network, <<>>}}
  \cup {[apiKey |-> TRUE, fault |-> None, parts |-> ps] :
          ps \in {None} \cup {Some(q) : q \in SeqsUpTo(PartKinds, MaxParts)}}

\* The outcomes the session is driven with: credential missing, a request
\* that throws with and without a message, a missing content sequence, an
\* image answer and a text-only answer.
SessionEnvs ==
  {env \in GatewayEnvs :
     \/ ~env.apiKey
     \/ env.fault # None
     \/ env.parts \in {None, Some(<<ImagePart(<<"X">>)>>), Some(<<TextPart(<<"n", "o">>)>>)}}

\* getClient: throws when the credential is missing.
getClient(env) == IF ~env.apiKey THEN Throw(M_noApiKey) ELSE Return(<<>>)

WordChars == {"p", "n", "g", "s", "v", "x", "m", "l", "j", "e", "i", "a", "t"}

RECURSIVE WordRun(_)
\* length of the longest prefix of s made of \w characters
WordRun(s) == IF s # <<>> /\ Head(s) \in WordChars THEN 1 + WordRun(Tail(s)) ELSE 0

\* base64Image.replace(/^data:image\/\w+;base64,/, "")
StripDataUrlPrefix(s) ==
  LET pre == S_dataColon \o S_imageSlash
  IN IF ~StartsWith(s, pre) THEN s
     ELSE LET rest == SubSeq(s, Len(pre) + 1, Len(s))
              k == WordRun(rest)
              after == SubSeq(rest, k + 1, Len(rest))
          IN IF k >= 1 /\ StartsWith(after, S_base64Comma)
             THEN SubSeq(after, Len(S_base64Comma) + 1, Len(after))
             ELSE s

\* The request handed to ai.models.generateContent.
GeminiRequest(base64Image, mime, text) ==
  [data |-> StripDataUrlPrefix(base64Image), mimeType |-> mime, text |-> text]

PartHasImage(part) == part.inlineData # None /\ part.inlineData[1] # <<>>
PartHasText(part) == part.text # None /\ part.text[1] # <<>>

\* A loop without the break: the last part with an image wins.
FirstImageIndex_last(parts) ==
  IF \E i \in 1..Len(parts) : PartHasImage(parts[i])
  THEN CHOOSE i \in 1..Len(parts) :
         /\ PartHasImage(parts[i])
         /\ \A j \in (i + 1)..Len(parts) : ~PartHasImage(parts[j])
  ELSE 0

\* index of the first part satisfying the test, 0 when there is none
FirstImageIndex(parts) ==
  IF \E i \in 1..Len(parts) : PartHasImage(parts[i])
  THEN CHOOSE i \in 1..Len(parts) :
         /\ PartHasImage(parts[i])
         /\ \A j \in 1..(i - 1) : ~PartHasImage(parts[j])
  ELSE 0

\* The last part with a text instead of the first.
FirstTextIndex_last(parts) ==
  IF \E i \in 1..Len(parts) : PartHasText(parts[i])
  THEN CHOOSE i \in 1..Len(parts) :
         /\ PartHasText(parts[i])
         /\ \A j \in (i + 1)..Len(parts) : ~PartHasText(parts[j])
  ELSE 0

FirstTextIndex(parts) ==
  IF \E i \in 1..Len(parts) : PartHasText(parts[i])
  THEN CHOOSE i \in 1..Len(parts) :
         /\ PartHasText(parts[i])
         /\ \A j \in 1..(i - 1) : ~PartHasText(parts[j])
  ELSE 0

\* The body of the try block: what it returns, or the error it throws.
TryBlock(env) ==
  IF env.fault # None THEN Throw(env.fault[1])
  ELSE IF env.parts = None \/ env.parts[1] = <<>> THEN Throw(M_noContent)
  ELSE LET parts == env.parts[1]
           i == FirstImageIndex(parts)
           t == FirstTextIndex(parts)
       IN IF i # 0 THEN Return(S_dataColon \o T_png \o S_base64Comma \o parts[i].inlineData[1])
          ELSE IF t # 0 THEN Throw(M_textInstead \o parts[t].text[1])
          ELSE Throw(M_noImage)

\* A catch block that rethrows the message as it is, without the fallback.
editImageWithGemini_noFallback(base64Image, mime, text, env) ==
  IF getClient(env).kind = "throw" THEN getClient(env)
  ELSE TryBlock(env)

\* editImageWithGemini: the data URL it resolves to, or the error it rejects with.
editImageWithGemini(base64Image, mime, text, env) ==
  IF getClient(env).kind = "throw" THEN getClient(env)
  ELSE LET r == TryBlock(env)
       IN IF r.kind = "return" THEN r
          ELSE Throw(IF r.value # <<>> THEN r.value ELSE M_serviceFallback)

\* --------------------------------------------------------- handleGenerate
\* The Generate button is the Button component with isLoading = (status is
\* LOADING): a Button that is loading does not deliver the click.
ButtonDeliversClick(isLoading) == ~isLoading

\* The guard of line 50 without the trim.
SubmitRejected_noTrim == ~Truthy(originalImage) \/ prompt = <<>>

\* if (!originalImage || !prompt.trim()) return;
SubmitRejected == ~Truthy(originalImage) \/ Trim(prompt) = <<>>

handleGenerate ==
  /\ ButtonDeliversClick(status = "LOADING")
  /\ IF SubmitRejected
     THEN /\ last' = "handleGenerate"
          /\ UNCHANGED <<status, originalImage, generatedImage, prompt, error, mimeType,
                         readers, calls>>
     ELSE /\ BagCardinality(calls) < MaxCalls
          /\ status' = "LOADING"
          /\ error' = None
          /\ calls' = calls (+) SetToBag({[base64Image |-> originalImage[1],
                                           mimeType |-> mimeType,
                                           prompt |-> prompt]})
          /\ last' = "handleGenerate"
          /\ UNCHANGED <<originalImage, generatedImage, prompt, mimeType, readers>>

\* A catch block that stores the message but forgets setStatus(AppStatus.ERROR).
GenerateSettled_catchKeepsStatus(c, env) ==
  /\ BagIn(c, calls)
  /\ calls' = calls (-) SetToBag({c})
  /\ LET r == editImageWithGemini(c.base64Image, c.mimeType, c.prompt, env)
     IN IF r.kind = "return"
        THEN /\ generatedImage' = Some(r.value)
             /\ status' = "SUCCESS"
             /\ UNCHANGED error
        ELSE /\ error' = Some(IF r.value # <<>> THEN r.value ELSE M_generateFallback)
             /\ UNCHANGED <<status, generatedImage>>
  /\ last' = "GenerateSettled"
  /\ UNCHANGED <<originalImage, prompt, mimeType, readers>>

\* The awaited call settles: lines 57-58 when it resolved, 60-61 when it rejected.
GenerateSettled(c, env) ==
  /\ BagIn(c, calls)
  /\ calls' = calls (-) SetToBag({c})
  /\ LET r == editImageWithGemini(c.base64Image, c.mimeType, c.prompt, env)
     IN IF r.kind = "return"
        THEN /\ generatedImage' = Some(r.value)
             /\ status' = "SUCCESS"
             /\ UNCHANGED error
        ELSE /\ error' = Some(IF r.value # <<>> THEN r.value ELSE M_generateFallback)
             /\ status' = "ERROR"
             /\ UNCHANGED generatedImage
  /\ last' = "GenerateSettled"
  /\ UNCHANGED <<originalImage, prompt, mimeType, readers>>

\* ------------------------------------------------------------ handleReset
\* The "Remove image" button is rendered with the workspace.
WorkspaceRendered == Truthy(originalImage)

\* A reset that forgets setStatus(AppStatus.IDLE).
handleReset_keepStatus ==
  /\ WorkspaceRendered
  /\ originalImage' = None
  /\ generatedImage' = None
  /\ prompt' = <<>>
  /\ error' = None
  /\ last' = "handleReset"
  /\ UNCHANGED <<status, mimeType, readers, calls>>

handleReset ==
  /\ WorkspaceRendered
  /\ originalImage' = None
  /\ generatedImage' = None
  /\ prompt' = <<>>
  /\ status' = "IDLE"
  /\ error' = None
  /\ last' = "handleReset"
  /\ UNCHANGED <<mimeType, readers, calls>>

\* ------------------------------------------------------------ Clear button
\* onClick={() => setGeneratedImage(null)}, rendered while generatedImage is truthy.
\* A Clear button that also returns the status to IDLE.
clearGenerated_toIdle ==
  /\ WorkspaceRendered
  /\ Truthy(generatedImage)
  /\ generatedImage' = None
  /\ status' = "IDLE"
  /\ last' = "clearGenerated"
  /\ UNCHANGED <<originalImage, prompt, error, mimeType, readers, calls>>

clearGenerated ==
  /\ WorkspaceRendered
  /\ Truthy(generatedImage)
  /\ generatedImage' = None
  /\ last' = "clearGenerated"
  /\ UNCHANGED <<status, originalImage, prompt, error, mimeType, readers, calls>>

Next ==
  \/ \E file \in Files : handleFileUpload(file)
  \/ \E file \in Files, ok \in BOOLEAN : onloadend(file, ok)
  \/ \E p \in Prompts : setPrompt(p)
  \/ handleGenerate
  \/ \E c \in BagToSet(calls), env \in SessionEnvs : GenerateSettled(c, env)
  \/ handleReset
  \/ clearGenerated

Spec == Init /\ [][Next]_vars

\* Every call that was issued eventually returns or throws.
SpecLive ==
  /\ Init
  /\ [][Next]_vars
  /\ WF_vars(\E c \in BagToSet(calls), env \in SessionEnvs : GenerateSettled(c, env))

\* ------------------------------------------------- the gateway on its own
\* The payloads handed to editImageWithGemini: the data URLs of image files
\* and a payload that is already raw base64.
GatewayPayloads ==
  {readAsDataURL(f) : f \in {g \in Files : StartsWith(g.type, S_imageSlash)}}
  \cup {<<"A">>}

\* A session that holds any payload, media type and instruction.
InitGateway ==
  /\ status = "IDLE"
  /\ originalImage \in {Some(p) : p \in GatewayPayloads}
  /\ generatedImage = None
  /\ prompt \in {p \in Prompts : Trim(p) # <<>>}
  /\ error = None
  /\ mimeType \in {T_png, T_svg, T_jpeg}
  /\ readers = {}
  /\ calls = EmptyBag
  /\ last = "init"

\* Submissions, each answered by any behaviour of the service.
NextGateway ==
  \/ handleGenerate
  \/ \E c \in BagToSet(calls), env \in GatewayEnvs : GenerateSettled(c, env)

SpecGateway == InitGateway /\ [][NextGateway]_vars

\* ------------------------------------------------------------- properties
IsBlank(s) == \A i \in 1..Len(s) : s[i] \in WhiteSpace
Fresh ==
  /\ status = "IDLE"
  /\ originalImage = None
  /\ generatedImage = None
  /\ error = None
  /\ prompt = <<>>

\* C1: at most one gateway call is in flight at any time.
C1_SingleFlight == BagCardinality(calls) <= 1

\* C2: a gateway outcome that arrives while the session is not in LOADING
\* changes neither the status, nor the generated image, nor the error.
C2_OutcomeOnlyInPending ==
  [][(last' = "GenerateSettled" /\ status # "LOADING")
       => UNCHANGED <<status, generatedImage, error>>]_vars

\* C3: the generated image and the error are never both set.
C3_NeverBoth == ~(generatedImage # None /\ error # None)

\* C4: the generated image is set only in SUCCESS, the error only in ERROR.
C4_PayloadMatchesPhase ==
  /\ generatedImage # None => status = "SUCCESS"
  /\ error # None => status = "ERROR"

\* C5: right after an accepted submit the session is LOADING with neither a
\* generated image nor an error.
C5_SubmitDiscardsPrior ==
  [][(handleGenerate /\ ~SubmitRejected)
       => (status' = "LOADING" /\ generatedImage' = None /\ error' = None)]_vars

\* C6: an accepted submit issues exactly one call, and when a call settles the
\* session is SUCCESS with an image and no error, or ERROR with an error and
\* no image.
C6_OneCallOneOutcome ==
  [][/\ (handleGenerate /\ ~SubmitRejected)
          => BagCardinality(calls') = BagCardinality(calls) + 1
     /\ last' = "GenerateSettled"
          => \/ status' = "SUCCESS" /\ generatedImage' # None /\ error' = None
             \/ status' = "ERROR" /\ error' # None /\ generatedImage' = None]_vars

\* C7: a submit without a source image, or with an instruction that is blank
\* after trimming, changes no field and issues no call.
C7_EmptySubmitNoOp ==
  [][(handleGenerate /\ (~Truthy(originalImage) \/ IsBlank(prompt)))
       => UNCHANGED <<status, originalImage, prompt, generatedImage, error, mimeType,
                      calls>>]_vars

C7_Witness ==
  /\ last = "handleGenerate"
  /\ Truthy(originalImage)
  /\ prompt # <<>>
  /\ IsBlank(prompt)
  /\ status = "IDLE"
  /\ calls = EmptyBag

\* C8: a reset yields a fresh session, and a file read or a gateway call that
\* completes right after the reset leaves it fresh.
C8_ResetIsFresh ==
  [][/\ handleReset => Fresh'
     /\ (last = "handleReset" /\ Fresh /\ last' \in {"onloadend", "GenerateSettled"})
          => Fresh']_vars

\* C9: the Clear button sets the generated image to null and leaves the
\* source image, the instruction, the status, the error and the media type
\* as they were.
C9_DiscardClearsResultOnly ==
  [][clearGenerated
       => /\ generatedImage' = None
          /\ UNCHANGED <<originalImage, prompt, status, error, mimeType>>]_vars

C9_Witness ==
  /\ last = "clearGenerated"
  /\ status = "SUCCESS"
  /\ generatedImage = None
  /\ Truthy(originalImage)
  /\ prompt # <<>>

\* C10: choosing a file whose declared type is not an image type changes no
\* field of the session.
C10_NonImageRejectedUntouched ==
  [][\A file \in Files :
       (handleFileUpload(file) /\ ~StartsWith(file.type, S_imageSlash))
         => UNCHANGED <<status, originalImage, prompt, generatedImage, error>>]_vars

\* The message of the fault of a call: the missing credential, or what
\* generateContent threw.
FaultOf(env) == IF ~env.apiKey THEN Some(M_noApiKey) ELSE env.fault

\* C11: a call that meets a fault (missing credential, or a request that
\* throws) ends as a failure carrying the fault's message, or the gateway's
\* fallback message when the fault has none, and the session ends in ERROR
\* with that message as its error.
C11_FaultBecomesFailure ==
  [][\A c \in BagToSet(calls), env \in GatewayEnvs :
       (GenerateSettled(c, env) /\ FaultOf(env) # None)
         => /\ status' = "ERROR"
            /\ error' = Some(IF FaultOf(env)[1] # <<>> THEN FaultOf(env)[1]
                             ELSE M_serviceFallback)]_vars

C11_Witness ==
  /\ last = "GenerateSettled"
  /\ status = "ERROR"
  /\ error = Some(M_noApiKey)

\* A service that answered: credential present and no fault.
Answered(env) == env.apiKey /\ env.fault = None
PartsOf(env) == IF env.parts = None THEN <<>> ELSE env.parts[1]
CarriesImage(part) == part.inlineData # None /\ Len(part.inlineData[1]) > 0
CarriesText(part) == part.text # None /\ Len(part.text[1]) > 0
PngDataUrl(d) ==
  <<"d", "a", "t", "a", ":", "i", "m", "a", "g", "e", "/", "p", "n", "g",
    ";", "b", "a", "s", "e", "6", "4", ",">> \o d

\* C12: when some element of the answer carries an inline image, the call
\* returns the data of the first such element as an image/png data URL,
\* whatever precedes it and whatever the input media type, and the session
\* stores it.
C12_FirstInlineImage ==
  [][\A c \in BagToSet(calls), env \in GatewayEnvs :
       (/\ GenerateSettled(c, env)
        /\ Answered(env)
        /\ \E i \in 1..Len(PartsOf(env)) : CarriesImage(PartsOf(env)[i]))
         => \E i \in 1..Len(PartsOf(env)) :
              /\ CarriesImage(PartsOf(env)[i])
              /\ \A j \in 1..(i - 1) : ~CarriesImage(PartsOf(env)[j])
              /\ generatedImage' = Some(PngDataUrl(PartsOf(env)[i].inlineData[1]))
              /\ status' = "SUCCESS"]_vars

C12_Witness ==
  /\ last = "GenerateSettled"
  /\ status = "SUCCESS"
  /\ generatedImage = Some(PngDataUrl(<<"Y">>))
  /\ mimeType = T_svg

\* C13: when no element of the answer carries an inline image, the call
\* fails: with the 'no content' reason when the content sequence is absent
\* or empty, else with the first text of the sequence appended to the 'text
\* instead of image' reason, else with the 'no valid image' reason; no image
\* is stored.
C13_NoImageClassified ==
  [][\A c \in BagToSet(calls), env \in GatewayEnvs :
       (/\ GenerateSettled(c, env)
        /\ Answered(env)
        /\ \A i \in 1..Len(PartsOf(env)) : ~CarriesImage(PartsOf(env)[i]))
         => /\ status' = "ERROR"
            /\ generatedImage' = generatedImage
            /\ IF PartsOf(env) = <<>>
               THEN error' = Some(M_noContent)
               ELSE IF \E i \in 1..Len(PartsOf(env)) : CarriesText(PartsOf(env)[i])
               THEN \E i \in 1..Len(PartsOf(env)) :
                      /\ CarriesText(PartsOf(env)[i])
                      /\ \A j \in 1..(i - 1) : ~CarriesText(PartsOf(env)[j])
                      /\ error' = Some(M_textInstead \o PartsOf(env)[i].text[1])
               ELSE error' = Some(M_noImage)]_vars

C13_Witness ==
  /\ last = "GenerateSettled"
  /\ status = "ERROR"
  /\ error = Some(M_textInstead \o <<"h", "i">>)

\* C14: when the read of a chosen image file completes, the session holds
\* that file's content as source image, no generated image, no error, status
\* IDLE, and the instruction is what it was.
C14_LoadImageCompleted ==
  [][\A file \in Files :
       onloadend(file, TRUE)
         => /\ originalImage' = Some(readAsDataURL(file))
            /\ generatedImage' = None
            /\ error' = None
            /\ status' = "IDLE"
            /\ prompt' = prompt]_vars

\* C15: the payload transmitted for a source image of the form
\* data:<media type>;base64,<data> is <data>, with the media type passed
\* separately; a payload without such a header is transmitted as it is.
C15_HeaderStripped ==
  \A c \in BagToSet(calls) :
    LET request == GeminiRequest(c.base64Image, c.mimeType, c.prompt)
    IN /\ request.mimeType = c.mimeType
       /\ \A file \in Files :
            c.base64Image = readAsDataURL(file) => request.data = file.data
       /\ ~StartsWith(c.base64Image, S_dataColon) => request.data = c.base64Image

\* C16: the media type of every gateway call is the declared type of the
\* file whose content is the source image of that call.
C16_TypeMatchesContent ==
  \A c \in BagToSet(calls) :
    \E file \in Files :
      c.base64Image = readAsDataURL(file) /\ c.mimeType = file.type

\* C17: whenever the status is ERROR the stored error is neither null nor
\* the empty string.
C17_ErrorHasMessage == status = "ERROR" => (error # None /\ Len(error[1]) > 0)

C17_Witness ==
  /\ status = "ERROR"
  /\ error = Some(M_serviceFallback)
  /\ last = "GenerateSettled"

\* C18: when every issued call eventually settles, a session in LOADING
\* eventually leaves LOADING, and the status is not LOADING when no call is
\* in flight.
C18_LoadingEnds ==
  /\ [](calls = EmptyBag => status # "LOADING")
  /\ (status = "LOADING") ~> (status # "LOADING")

\* A resubmission after a reset, with the first call still in flight.
C18_Witness ==
  /\ status = "LOADING"
  /\ BagCardinality(calls) = 2
  /\ last = "handleGenerate"
====
